---- MODULE Spec2Model ----
(***************************************************************************)
(* TPLinkSmartHomeProtocol (kasa/protocol.py): the connection and retry    *)
(* engine of one protocol instance used by several callers, the wire       *)
(* cipher and the discovery decoder.                                       *)
(*                                                                         *)
(* One step of a caller is the code it runs between two suspension points  *)
(* (await of open_connection, of the scheduled _execute_query, of the      *)
(* response read, of wait_closed, of a contended lock).                    *)
(***************************************************************************)
EXTENDS Integers, Sequences, FiniteSets, TLC

\* ---------------------------------------------------------------- bounds
NumTasks == 2
NumLoops == 2
\* Spec: callers that query and close concurrently
MaxRetry == 1
MaxCalls == 3
MaxFaults == 1
\* SpecRetry: one querying caller and one closing caller
SeqMaxRetry == 3
SeqMaxCalls == 2
SeqMaxFaults == 4
\* SpecLive: two calls of two callers under fair scheduling
LiveMaxCalls == 2
LiveMaxFaults == 2

Tasks == 1..NumTasks
Loops == 1..NumLoops
\* retry_count is an int: -1 stands for the negative values (empty range)
RetryCounts == -1..MaxRetry
SeqRetryCounts == -1..SeqMaxRetry
\* stream and lock objects alive at one time: one the instance holds and
\* one per caller that still holds a reference in its frame
StreamIds == 1..(NumTasks + 1)
LockIds == 1..(NumTasks + 1)

\* ------------------------------------------------------------- constants
None == 0
DEFAULT_RETRY_COUNT == 3

\* errno values of _NO_RETRY_ERRORS
NO_RETRY_ERRORS == {"EHOSTDOWN", "EHOSTUNREACH", "ECONNREFUSED"}

\* exceptions the awaited network calls raise, by class and errno
NoExc == [type |-> "none", errno |-> "none"]
Exc(ty, en) == [type |-> ty, errno |-> en]
DialErrors ==
    { Exc("ConnectionRefusedError", "ECONNREFUSED"),
      Exc("OSError", "EHOSTDOWN"),
      Exc("OSError", "EHOSTUNREACH"),
      Exc("OSError", "ECONNREFUSED"),
      Exc("OSError", "ECONNRESET"),
      Exc("TimeoutError", "none") }
ExecErrors ==
    { Exc("TimeoutError", "none"),
      Exc("IncompleteReadError", "none") }
AssertionError == Exc("AssertionError", "none")
ShutdownErrors == { Exc("OSError", "ECONNRESET") }
\* raised in a call at its await when the caller cancels it; a BaseException
CancelledError == Exc("CancelledError", "none")

\* class hierarchy used by the except clauses of _query
IsConnectionRefusedError(e) == e.type = "ConnectionRefusedError"
IsOSError(e) == e.type \in {"OSError", "ConnectionRefusedError"}
IsException(e) == e.type \notin {"none", "CancelledError"}

VARIABLES
    reader, writer, loop, query_lock,   \* fields of the instance
    streams, locks,                     \* stream and lock objects
    pc, ctx, rc, retry, lk, rs, hnd, err, disc,   \* frame of each caller
    dials, execs, dialFails, refused, outcome, callsLeft, faultsLeft, \* history and budgets
    cseq,                               \* close() calls since the last query step
    cin, cout,                          \* input and result of the pure functions
    fin                                 \* the finalization of the instance

instVars == <<reader, writer, loop, query_lock>>
heapVars == <<streams, locks>>
taskVars == <<pc, ctx, rc, retry, lk, rs, hnd, err, disc>>
histVars == <<dials, execs, dialFails, refused, outcome, callsLeft, faultsLeft, cseq>>
pureVars == <<cin, cout>>
finVars == <<fin>>
vars == <<instVars, heapVars, taskVars, histVars, pureVars, finVars>>

\* ------------------------------------------------------------- objects
FreeStream == [loop |-> None, closed |-> FALSE, pending |-> <<>>]
FreeLock == [locked |-> FALSE, waiters |-> <<>>]
NoOutcome == [kind |-> "none", msg |-> "none", cause |-> NoExc, resp |-> None]
\* the instance has not been discarded: done tells that __del__ has run,
\* running the event loops that were running then, stream the stream the
\* instance held then, on the event loop writer.close was scheduled on and
\* ran that the scheduled call has run
NotFinalized == [done |-> FALSE, running |-> {}, stream |-> None, on |-> None, ran |-> FALSE]

\* pc values of a caller that is inside `async with self.query_lock`
InSection == {"dial", "exec", "read", "closing_q"}
Finished == {"idle", "done", "raised", "closed"}

\* objects other callers still hold in their frames
OtherStreamRefs(t) ==
    {rs[u] : u \in {v \in Tasks \ {t} : pc[v] \in {"read", "closing_q", "closing_u"}}}
OtherLockRefs(t) ==
    {lk[u] : u \in {v \in Tasks \ {t} : pc[v] \in InSection \cup {"wait"}}}
Min(S) == CHOOSE x \in S : \A y \in S : x <= y
NewStreamId(t) == Min(StreamIds \ OtherStreamRefs(t))
NewLockId(t) == Min(LockIds \ OtherLockRefs(t))
CleanStreams(st, refs) == [i \in StreamIds |-> IF i \in refs THEN st[i] ELSE FreeStream]
CleanLocks(lo, refs) == [i \in LockIds |-> IF i \in refs THEN lo[i] ELSE FreeLock]

\* the values a caller's synchronous code works on: the instance's stream
\* (r, w), the objects (st, lo), the instance's lock (ql), the lock of the
\* caller's `async with` (k), its loop variable (n), its dial count (d), its
\* retry_count (c), the error wait_closed raised (x) and whether the call was
\* made by try_query_discovery_info (dq)
Cur(t) ==
    [r |-> reader, w |-> writer, st |-> streams, lo |-> locks, ql |-> query_lock,
     k |-> lk[t], n |-> retry[t], d |-> dials[t], c |-> rc[t], x |-> NoExc,
     dq |-> disc[t]]

InitInstance(c, f) ==
    /\ reader = None /\ writer = None /\ loop = None /\ query_lock = None
    /\ streams = [i \in StreamIds |-> FreeStream]
    /\ locks = [i \in LockIds |-> FreeLock]
    /\ pc = [t \in Tasks |-> "idle"]
    /\ ctx = [t \in Tasks |-> None]
    /\ rc = [t \in Tasks |-> 0]
    /\ retry = [t \in Tasks |-> 0]
    /\ lk = [t \in Tasks |-> None]
    /\ rs = [t \in Tasks |-> None]
    /\ hnd = [t \in Tasks |-> "none"]
    /\ err = [t \in Tasks |-> NoExc]
    /\ disc = [t \in Tasks |-> FALSE]
    /\ dials = [t \in Tasks |-> 0]
    /\ execs = [t \in Tasks |-> 0]
    /\ dialFails = [t \in Tasks |-> 0]
    /\ refused = [t \in Tasks |-> FALSE]
    /\ outcome = [t \in Tasks |-> NoOutcome]
    /\ callsLeft = c
    /\ faultsLeft = f
    /\ cseq = 0
    /\ fin = NotFinalized

\* no pure function under check
NoInput == [kind |-> "none", port |-> None, val |-> <<>>]
NoOutput == [stage |-> "none"]

Init == InitInstance(MaxCalls, MaxFaults) /\ cin = NoInput /\ cout = NoOutput
InitRetry == InitInstance(SeqMaxCalls, SeqMaxFaults) /\ cin = NoInput /\ cout = NoOutput

\* ------------------------------------------- ends of a call (tails)
\* line 117: `except SmartDeviceException` of try_query_discovery_info
DiscoveryQueryCatchesConnect(o) == o.kind = "SmartDeviceException" /\ o.msg = "connect"
DiscoveryQueryCatches(o) == o.kind = "SmartDeviceException"

\* The caller's frame is left: the `async with` releases lock s.k (None: the
\* call holds no lock) and the call ends with pc value p and outcome o. In
\* try_query_discovery_info (lines 114-122) an outcome the except clause
\* catches becomes `return None`; msg and cause then tell what was caught.
Leave(t, s, p, o) ==
    /\ reader' = s.r
    /\ writer' = s.w
    /\ streams' = CleanStreams(s.st, {s.r, s.w} \cup OtherStreamRefs(t))
    /\ locks' = CleanLocks(IF s.k = None THEN s.lo ELSE [s.lo EXCEPT ![s.k].locked = FALSE],
                           {s.ql} \cup OtherLockRefs(t))
    /\ pc' = [pc EXCEPT ![t] = IF s.dq /\ DiscoveryQueryCatches(o) THEN "done" ELSE p]
    /\ retry' = [retry EXCEPT ![t] = 0]
    /\ rs' = [rs EXCEPT ![t] = None]
    /\ hnd' = [hnd EXCEPT ![t] = "none"]
    /\ err' = [err EXCEPT ![t] = NoExc]
    /\ dials' = [dials EXCEPT ![t] = s.d]
    /\ lk' = [lk EXCEPT ![t] = None]
    /\ outcome' = [outcome EXCEPT ![t] =
            IF s.dq /\ DiscoveryQueryCatches(o)
            THEN [kind |-> "None", msg |-> o.msg, cause |-> o.cause, resp |-> None]
            ELSE o]

\* raise SmartDeviceException(m ... ex), lines 213, 219, 227, 242, 252
RaiseSmartDeviceException(t, s, m, e) ==
    Leave(t, s, "raised", [kind |-> "SmartDeviceException", msg |-> m, cause |-> e, resp |-> None])

\* an exception that no except clause of _query or close catches
RaiseRaw(t, s, e) ==
    Leave(t, s, "raised", [kind |-> "raw", msg |-> "none", cause |-> e, resp |-> None])

\* the caller suspends at pc value p, holding stream ref in its frame
Suspend(t, s, p, ref, h, e) ==
    /\ reader' = s.r
    /\ writer' = s.w
    /\ streams' = CleanStreams(s.st, {s.r, s.w, ref} \cup OtherStreamRefs(t))
    /\ locks' = CleanLocks(s.lo, {s.ql, s.k} \cup OtherLockRefs(t))
    /\ pc' = [pc EXCEPT ![t] = p]
    /\ retry' = [retry EXCEPT ![t] = s.n]
    /\ rs' = [rs EXCEPT ![t] = ref]
    /\ hnd' = [hnd EXCEPT ![t] = h]
    /\ err' = [err EXCEPT ![t] = e]
    /\ dials' = [dials EXCEPT ![t] = s.d]
    /\ lk' = [lk EXCEPT ![t] = s.k]
    /\ outcome' = [outcome EXCEPT ![t] = NoOutcome]

\* _connect, lines 154-160, up to the await of open_connection
ConnectAlwaysDials(t, s) ==
    Suspend(t, [s EXCEPT !.r = None, !.w = None, !.d = s.d + 1], "dial", None, "none", NoExc)
Connect(t, s) ==
    IF s.w # None
    THEN Suspend(t, s, "exec", None, "none", NoExc)
    ELSE Suspend(t, [s EXCEPT !.r = None, !.w = None, !.d = s.d + 1], "dial", None, "none", NoExc)

\* ------------------------------------------------ decisions of _query
\* lines 211-230: does the dial handler raise (TRUE) or `continue` (FALSE)
DialGivesUpOnBudget(e, n, retry_count) == n >= retry_count
DialGivesUpLate(e, n, retry_count) ==
    IF IsConnectionRefusedError(e) THEN TRUE
    ELSE IF IsOSError(e) THEN e.errno \in NO_RETRY_ERRORS \/ n > retry_count
    ELSE n > retry_count
DialGivesUp(e, n, retry_count) ==
    IF IsConnectionRefusedError(e) THEN TRUE
    ELSE IF IsOSError(e) THEN e.errno \in NO_RETRY_ERRORS \/ n >= retry_count
    ELSE n >= retry_count

\* lines 238-244: does the execute handler raise
ExecGivesUpEarly(e, n, retry_count) == n + 1 >= retry_count
ExecGivesUp(e, n, retry_count) == n >= retry_count

\* line 238: `except Exception` around the execute
ExecCatchesOSError(e) == IsOSError(e)
ExecCatches(e) == IsException(e)

\* line 190: contextlib.suppress(Exception) around wait_closed
SuppressesNothing(e) == FALSE
SuppressedByClose(e) == IsException(e)

\* line 208: `for retry in range(retry_count + 1)` taken at value s.n; an
\* exhausted range falls through to lines 250-252
RECURSIVE AfterClose(_, _, _, _)
\* close, lines 184-191, up to the await of wait_closed; h and e are the
\* handler that called it and the exception that handler holds
CloseKeepsStream(t, s, h, e) ==
    IF s.w = None
    THEN AfterClose(t, [s EXCEPT !.r = None], h, e)
    ELSE Suspend(t, [s EXCEPT !.st[s.w].closed = TRUE],
                 IF h = "user" THEN "closing_u" ELSE "closing_q", s.w, h, e)
CloseNullsWriterOnly(t, s, h, e) ==
    IF s.w = None
    THEN AfterClose(t, s, h, e)
    ELSE Suspend(t, [s EXCEPT !.w = None, !.st[s.w].closed = TRUE],
                 IF h = "user" THEN "closing_u" ELSE "closing_q", s.w, h, e)
CloseThen(t, s, h, e) ==
    IF s.w = None
    THEN AfterClose(t, [s EXCEPT !.r = None], h, e)
    ELSE Suspend(t, [s EXCEPT !.r = None, !.w = None, !.st[s.w].closed = TRUE],
                 IF h = "user" THEN "closing_u" ELSE "closing_q", s.w, h, e)

LoopWithoutBound(t, s) == Connect(t, s)
Loop(t, s) ==
    IF s.n < s.c + 1
    THEN Connect(t, s)
    ELSE CloseThen(t, s, "unreach", NoExc)

\* the code that follows `await self.close()` in handler h for exception e
AfterClose(t, s, h, e) ==
    CASE h = "user" ->
           Leave(t, s, "closed", [kind |-> "returned", msg |-> "none", cause |-> s.x, resp |-> None])
      [] h = "unreach" ->
           RaiseSmartDeviceException(t, s, "unreachable", NoExc)
      [] h = "dial" ->
           IF DialGivesUp(e, s.n, s.c)
           THEN RaiseSmartDeviceException(t, s, "connect", e)
           ELSE Loop(t, [s EXCEPT !.n = s.n + 1])
      [] h = "exec" ->
           IF ExecGivesUp(e, s.n, s.c)
           THEN RaiseSmartDeviceException(t, s, "query", e)
           ELSE Loop(t, [s EXCEPT !.n = s.n + 1])

\* ------------------------------------------------------------ actions
\* query, lines 133-152, with _detect_event_loop_change (124-131) and
\* _reset (193-195), called in event loop l with retry_count n; runs up to
\* the first suspension of the call; dq tells that try_query_discovery_info
\* made the call
QueryCall(t, l, n, dq) ==
    /\ ~fin.done
    /\ pc[t] \in Finished
    /\ callsLeft > 0
    /\ LET changed == loop # None /\ loop # l
           r1 == IF changed THEN None ELSE reader
           w1 == IF changed THEN None ELSE writer
           q1 == IF changed THEN None ELSE query_lock
           k == IF q1 = None THEN NewLockId(t) ELSE q1
           lo1 == IF q1 = None THEN [locks EXCEPT ![k] = FreeLock] ELSE locks
           s == [r |-> r1, w |-> w1, st |-> streams, lo |-> lo1, ql |-> k,
                 k |-> k, n |-> 0, d |-> 0, c |-> n, x |-> NoExc, dq |-> dq]
       IN /\ loop' = (IF loop = None THEN l ELSE IF changed THEN None ELSE loop)
          /\ query_lock' = k
          /\ IF ~lo1[k].locked /\ lo1[k].waiters = <<>>
             THEN Loop(t, [s EXCEPT !.lo[k].locked = TRUE])
             ELSE Suspend(t, [s EXCEPT !.lo[k].waiters = Append(@, t)], "wait", None, "none", NoExc)
    /\ ctx' = [ctx EXCEPT ![t] = l]
    /\ rc' = [rc EXCEPT ![t] = n]
    /\ execs' = [execs EXCEPT ![t] = 0]
    /\ dialFails' = [dialFails EXCEPT ![t] = 0]
    /\ refused' = [refused EXCEPT ![t] = FALSE]
    /\ disc' = [disc EXCEPT ![t] = dq]
    /\ callsLeft' = callsLeft - 1
    /\ cseq' = 0
    /\ UNCHANGED <<faultsLeft, pureVars, finVars>>

StartQuery(t, l, n) == QueryCall(t, l, n, FALSE)

\* try_query_discovery_info, lines 112-122: query(DISCOVERY_QUERY) with the
\* default retry_count
TryQueryDiscoveryInfo(t, l) == QueryCall(t, l, DEFAULT_RETRY_COUNT, TRUE)

\* line 151: a queued caller is woken by the release of the lock
Admit(t) ==
    /\ pc[t] = "wait"
    /\ ~locks[lk[t]].locked
    /\ locks[lk[t]].waiters # <<>>
    /\ Head(locks[lk[t]].waiters) = t
    /\ Loop(t, [Cur(t) EXCEPT !.lo[lk[t]].locked = TRUE,
                              !.lo[lk[t]].waiters = Tail(@), !.n = 0, !.d = 0])
    /\ cseq' = 0
    /\ UNCHANGED <<loop, query_lock, ctx, rc, disc, execs, dialFails, refused, callsLeft, faultsLeft, pureVars, finVars>>

\* lines 159-160 and 209-230: open_connection completes, fails or times out
DialDone(t) ==
    /\ pc[t] = "dial"
    /\ \/ LET i == NewStreamId(t)
          IN /\ Suspend(t, [Cur(t) EXCEPT !.r = i, !.w = i,
                                          !.st[i] = [loop |-> ctx[t], closed |-> FALSE, pending |-> <<>>]],
                        "exec", None, "none", NoExc)
             /\ UNCHANGED <<dialFails, refused, faultsLeft>>
       \/ \E e \in DialErrors :
             /\ faultsLeft > 0
             /\ CloseThen(t, Cur(t), "dial", e)
             /\ dialFails' = [dialFails EXCEPT ![t] = @ + 1]
             /\ refused' = [refused EXCEPT ![t] = @ \/ IsConnectionRefusedError(e)
                                                    \/ (IsOSError(e) /\ e.errno \in NO_RETRY_ERRORS)]
             /\ faultsLeft' = faultsLeft - 1
    /\ cseq' = 0
    /\ UNCHANGED <<loop, query_lock, ctx, rc, disc, execs, callsLeft, pureVars, finVars>>

\* lines 232-237 and 162-171: the scheduled _execute_query starts, checks the
\* stream and writes the request
ExecFails(t, e) ==
    IF ExecCatches(e) THEN CloseThen(t, Cur(t), "exec", e) ELSE RaiseRaw(t, Cur(t), e)

ExecWrite(t) ==
    /\ pc[t] = "exec"
    /\ IF writer = None \/ reader = None
       THEN ExecFails(t, AssertionError) /\ faultsLeft' = faultsLeft
       ELSE \/ /\ ~streams[writer].closed
               /\ Suspend(t, [Cur(t) EXCEPT !.st[writer].pending = Append(@, t)],
                          "read", reader, "none", NoExc)
               /\ faultsLeft' = faultsLeft
            \/ \E e \in ExecErrors :
                  /\ faultsLeft > 0 \/ streams[writer].closed
                  /\ ExecFails(t, e)
                  /\ faultsLeft' = IF streams[writer].closed THEN faultsLeft ELSE faultsLeft - 1
    /\ execs' = [execs EXCEPT ![t] = @ + 1]
    /\ cseq' = 0
    /\ UNCHANGED <<loop, query_lock, ctx, rc, disc, dialFails, refused, callsLeft, pureVars, finVars>>

\* lines 173-182 and 238-248: the response frame arrives, or the read fails
ExecRead(t) ==
    /\ pc[t] = "read"
    /\ LET sid == rs[t]
           dead == streams[sid].closed \/ streams[sid].pending = <<>>
       IN \/ /\ ~dead
             /\ Leave(t, [Cur(t) EXCEPT !.st[sid].pending = Tail(@)], "done",
                      [kind |-> "document", msg |-> "none", cause |-> NoExc,
                       resp |-> Head(streams[sid].pending)])
             /\ faultsLeft' = faultsLeft
          \/ \E e \in ExecErrors :
                /\ faultsLeft > 0 \/ dead
                /\ ExecFails(t, e)
                /\ faultsLeft' = IF dead THEN faultsLeft ELSE faultsLeft - 1
    /\ cseq' = 0
    /\ UNCHANGED <<loop, query_lock, ctx, rc, disc, execs, dialFails, refused, callsLeft, pureVars, finVars>>

\* lines 190-191: wait_closed returns or raises
CloseWake(t) ==
    /\ pc[t] \in {"closing_q", "closing_u"}
    /\ \E x \in {NoExc} \cup ShutdownErrors :
          /\ x = NoExc \/ faultsLeft > 0
          /\ faultsLeft' = IF x = NoExc THEN faultsLeft ELSE faultsLeft - 1
          /\ IF x = NoExc \/ SuppressedByClose(x)
             THEN AfterClose(t, [Cur(t) EXCEPT !.x = x], hnd[t], err[t])
             ELSE RaiseRaw(t, Cur(t), x)
    /\ cseq' = IF pc[t] = "closing_q" THEN 0 ELSE cseq
    /\ UNCHANGED <<loop, query_lock, ctx, rc, disc, execs, dialFails, refused, callsLeft, pureVars, finVars>>

\* close, lines 184-191, called by a caller that runs no query
UserClose(t) ==
    /\ ~fin.done
    /\ pc[t] \in Finished
    /\ callsLeft > 0
    /\ CloseThen(t, [Cur(t) EXCEPT !.n = 0, !.d = 0, !.c = 0, !.dq = FALSE], "user", NoExc)
    /\ ctx' = [ctx EXCEPT ![t] = None]
    /\ disc' = [disc EXCEPT ![t] = FALSE]
    /\ rc' = [rc EXCEPT ![t] = 0]
    /\ execs' = [execs EXCEPT ![t] = 0]
    /\ dialFails' = [dialFails EXCEPT ![t] = 0]
    /\ refused' = [refused EXCEPT ![t] = FALSE]
    /\ callsLeft' = callsLeft - 1
    /\ cseq' = IF cseq < 2 THEN cseq + 1 ELSE cseq
    /\ UNCHANGED <<loop, query_lock, faultsLeft, pureVars, finVars>>

Next ==
    \/ \E t \in Tasks, l \in Loops, n \in RetryCounts : StartQuery(t, l, n)
    \/ \E t \in Tasks : Admit(t)
    \/ \E t \in Tasks : DialDone(t)
    \/ \E t \in Tasks : ExecWrite(t)
    \/ \E t \in Tasks : ExecRead(t)
    \/ \E t \in Tasks : CloseWake(t)
    \/ \E t \in Tasks : UserClose(t)

Spec == Init /\ [][Next]_vars

\* The event loop resumes a call whose await can complete: the wait_for of
\* lines 160 and 235 ends every dial and every execute (completion, failure
\* or timeout), the transport ends wait_closed (line 191), and the release
\* of the lock at the end of `async with` (line 151) wakes the first waiter.
Fairness ==
    \A t \in Tasks :
        /\ WF_vars(Admit(t))
        /\ WF_vars(DialDone(t))
        /\ WF_vars(ExecWrite(t))
        /\ WF_vars(ExecRead(t))
        /\ WF_vars(CloseWake(t))

InitLive == InitInstance(LiveMaxCalls, LiveMaxFaults) /\ cin = NoInput /\ cout = NoOutput
SpecLive == InitLive /\ [][Next]_vars /\ Fairness

\* line 255: does __del__ schedule writer.close, the event loops in R running
DelSchedules(w, l, R) == w # None /\ l # None /\ l \in R

\* __del__, lines 254-261, with _reset (193-195): the instance is discarded
\* when no call on it is under way, the event loops in R running
Finalize(R) ==
    /\ ~fin.done
    /\ \A t \in Tasks : pc[t] \in Finished
    /\ fin' = [done |-> TRUE, running |-> R, stream |-> writer,
               on |-> IF DelSchedules(writer, loop, R) THEN loop ELSE None,
               ran |-> FALSE]
    /\ reader' = None /\ writer' = None /\ loop' = None /\ query_lock' = None
    /\ UNCHANGED <<heapVars, taskVars, histVars, pureVars>>

\* line 260: the event loop runs the writer.close that __del__ scheduled
ScheduledClose ==
    /\ fin.done /\ fin.on # None /\ ~fin.ran
    /\ fin' = [fin EXCEPT !.ran = TRUE]
    /\ streams' = [streams EXCEPT ![fin.stream].closed = TRUE]
    /\ UNCHANGED <<instVars, locks, taskVars, histVars, pureVars>>

\* the callers' calls, and the discarding of the instance between them
NextFinal ==
    \/ Next
    \/ \E R \in SUBSET Loops : Finalize(R)
    \/ ScheduledClose

SpecFinal == Init /\ [][NextFinal]_vars

\* one caller queries, with the whole range of retry counts, while the other
\* calls close
NextRetry ==
    \/ \E l \in Loops, n \in SeqRetryCounts : StartQuery(1, l, n)
    \/ DialDone(1)
    \/ ExecWrite(1)
    \/ ExecRead(1)
    \/ \E t \in Tasks : CloseWake(t)
    \/ UserClose(NumTasks)

SpecRetry == InitRetry /\ [][NextRetry]_vars

\* The caller of t cancels the call at the await it is suspended in (lines
\* 151, 160, 171-176, 191). CancelledError is no Exception: no except clause
\* of _query (211-230, 238) and no suppress of close (190) catches it, so it
\* leaves the call with the fields of the instance as they are; `async with`
\* (151) releases the lock, and a caller queued on the lock leaves the queue.
Cancel(t) ==
    /\ pc[t] \in InSection \cup {"wait", "closing_u"}
    /\ LET s == Cur(t)
           q == [i \in 1..(Len(s.lo[lk[t]].waiters) - 1) |->
                    IF \A j \in 1..i : s.lo[lk[t]].waiters[j] # t
                    THEN s.lo[lk[t]].waiters[i] ELSE s.lo[lk[t]].waiters[i + 1]]
       IN IF pc[t] = "wait"
          THEN RaiseRaw(t, [s EXCEPT !.lo[lk[t]].waiters = q, !.k = None], CancelledError)
          ELSE RaiseRaw(t, s, CancelledError)
    /\ cseq' = IF pc[t] = "closing_u" THEN cseq ELSE 0
    /\ UNCHANGED <<loop, query_lock, ctx, rc, disc, execs, dialFails, refused, callsLeft, faultsLeft, pureVars, finVars>>

\* one caller queries and may be cancelled while the other calls close
NextCancel ==
    \/ NextRetry
    \/ \E t \in Tasks : Cancel(t)

SpecCancel == InitRetry /\ [][NextCancel]_vars

\* one caller probes the device with try_query_discovery_info while the other
\* calls close
NextDiscovery ==
    \/ \E l \in Loops : TryQueryDiscoveryInfo(1, l)
    \/ DialDone(1)
    \/ ExecWrite(1)
    \/ ExecRead(1)
    \/ \E t \in Tasks : CloseWake(t)
    \/ UserClose(NumTasks)

SpecDiscovery == InitRetry /\ [][NextDiscovery]_vars

\* ------------------------------------------------- the wire cipher
MaxLen == 3
INITIALIZATION_VECTOR == 171
BLOCK_SIZE == 4

\* bytes the inputs are made of: NUL, '"', 'A', '{', '}', the initial key and
\* the lead and continuation bytes of UTF-8
ByteSample == {0, 34, 65, 123, 125, 171, 195, 169, 255}
\* code points of one, two and three UTF-8 bytes: '"', 'A', '{', '}',
\* U+00E9, U+20AC
CodePointSample == {34, 65, 123, 125, 233, 8364}

SeqsUpTo(S, n) == UNION {[1..k -> S] : k \in 0..n}

RECURSIVE BitXor(_, _)
\* the operator ^ on non-negative ints
BitXor(a, b) ==
    IF a = 0 THEN b
    ELSE IF b = 0 THEN a
    ELSE (((a % 2) + (b % 2)) % 2) + 2 * BitXor(a \div 2, b \div 2)

RECURSIVE XorFrom(_, _)
\* lines 266-268: the key of a byte is the output of the byte before it
XorFromPlainKey(key, unencrypted) ==
    [i \in 1..Len(unencrypted) |->
        BitXor(IF i = 1 THEN key ELSE unencrypted[i - 1], unencrypted[i])]
XorFrom(key, unencrypted) ==
    IF unencrypted = <<>> THEN <<>>
    ELSE LET k == BitXor(key, Head(unencrypted))
         IN <<k>> \o XorFrom(k, Tail(unencrypted))

\* _xor_payload, lines 263-268: each output byte is the new key
XorPayloadFixedKey(unencrypted) ==
    [i \in 1..Len(unencrypted) |-> BitXor(INITIALIZATION_VECTOR, unencrypted[i])]
XorPayload(unencrypted) == XorFrom(INITIALIZATION_VECTOR, unencrypted)

RECURSIVE XorEncryptedFrom(_, _)
XorEncryptedFrom(key, ciphertext) ==
    IF ciphertext = <<>> THEN <<>>
    ELSE <<BitXor(key, Head(ciphertext))>> \o XorEncryptedFrom(Head(ciphertext), Tail(ciphertext))

\* _xor_encrypted_payload, lines 282-288: the key becomes the cipher byte
XorEncryptedPayload(ciphertext) == XorEncryptedFrom(INITIALIZATION_VECTOR, ciphertext)

\* str.encode(): UTF-8 of a sequence of code points below 0x10000
Utf8Char(c) ==
    IF c < 128 THEN <<c>>
    ELSE IF c < 2048 THEN <<192 + (c \div 64), 128 + (c % 64)>>
    ELSE <<224 + (c \div 4096), 128 + ((c \div 64) % 64), 128 + (c % 64)>>
RECURSIVE Utf8Encode(_)
Utf8Encode(str) ==
    IF str = <<>> THEN <<>> ELSE Utf8Char(Head(str)) \o Utf8Encode(Tail(str))

IsCont(b) == b >= 128 /\ b < 192
RECURSIVE Utf8DecodeFrom(_, _)
\* bytes.decode(): the code points, or an error (UnicodeDecodeError) for a
\* stray continuation byte, a truncated or overlong sequence, a surrogate or
\* a lead byte above 0xF4; four-byte sequences give a code point above 0xFFFF
Utf8DecodeFrom(b, i) ==
    IF i > Len(b) THEN [ok |-> TRUE, str |-> <<>>]
    ELSE LET c == b[i]
             n == IF c < 128 THEN 1
                  ELSE IF c >= 194 /\ c < 224 THEN 2
                  ELSE IF c >= 224 /\ c < 240 THEN 3
                  ELSE IF c >= 240 /\ c < 245 THEN 4
                  ELSE 0
         IN IF n = 0 \/ i + n - 1 > Len(b) \/ \E j \in 1..(n - 1) : ~IsCont(b[i + j])
            THEN [ok |-> FALSE, str |-> <<>>]
            ELSE LET cp == IF n = 1 THEN c
                           ELSE IF n = 2 THEN ((c - 192) * 64) + (b[i + 1] - 128)
                           ELSE IF n = 3 THEN ((c - 224) * 4096) + ((b[i + 1] - 128) * 64) + (b[i + 2] - 128)
                           ELSE ((c - 240) * 262144) + ((b[i + 1] - 128) * 4096)
                                    + ((b[i + 2] - 128) * 64) + (b[i + 3] - 128)
                     bad == \/ (n = 3 /\ cp < 2048)
                            \/ (n = 3 /\ cp >= 55296 /\ cp < 57344)
                            \/ (n = 4 /\ (cp < 65536 \/ cp > 1114111))
                     rest == Utf8DecodeFrom(b, i + n)
                 IN IF bad \/ ~rest.ok
                    THEN [ok |-> FALSE, str |-> <<>>]
                    ELSE [ok |-> TRUE, str |-> <<cp>> \o rest.str]
Utf8Decode(b) == Utf8DecodeFrom(b, 1)

\* struct.pack(">I", n), line 278
PackLengthLittleEndian(n) ==
    <<n % 256, (n \div 256) % 256, (n \div 65536) % 256, (n \div 16777216) % 256>>
PackLength(n) ==
    <<(n \div 16777216) % 256, (n \div 65536) % 256, (n \div 256) % 256, n % 256>>
\* struct.unpack(">I", b)[0], line 174
UnpackLength(b) == (b[1] * 16777216) + (b[2] * 65536) + (b[3] * 256) + b[4]

\* encrypt, lines 270-280
Encrypt(request) ==
    LET plainbytes == Utf8Encode(request)
    IN PackLength(Len(plainbytes)) \o XorPayload(plainbytes)

\* decrypt, lines 290-299: the text, or the error of decode()
Decrypt(ciphertext) == Utf8Decode(XorEncryptedPayload(ciphertext))

\* the part of a frame after its length prefix, as in encrypted_req[4:]
AfterPrefix(frame) == SubSeq(frame, BLOCK_SIZE + 1, Len(frame))


\* ----------------------------------------------------- discovery
DEFAULT_PORT == 9999
MaxGarbage == 2

\* texts as sequences of code points
\* "system"
SYSTEM == <<115, 121, 115, 116, 101, 109>>
\* "get_sysinfo"
GET_SYSINFO == <<103, 101, 116, 95, 115, 121, 115, 105, 110, 102, 111>>
\* {"system":{"get_sysinfo":null}}
T_QUERY == <<123, 34, 115, 121, 115, 116, 101, 109, 34, 58, 123, 34, 103, 101, 116, 95, 115, 121, 115, 105, 110, 102, 111, 34, 58, 110, 117, 108, 108, 125, 125>>
\* {"system":{"get_sysinfo":{"A":1}}}
T_SYSINFO == <<123, 34, 115, 121, 115, 116, 101, 109, 34, 58, 123, 34, 103, 101, 116, 95, 115, 121, 115, 105, 110, 102, 111, 34, 58, 123, 34, 65, 34, 58, 49, 125, 125, 125>>
\* { "system" : {"get_sysinfo": {}} }
T_SPACED == <<123, 32, 34, 115, 121, 115, 116, 101, 109, 34, 32, 58, 32, 123, 34, 103, 101, 116, 95, 115, 121, 115, 105, 110, 102, 111, 34, 58, 32, 123, 125, 125, 32, 125>>
\* {"system":"get_sysinfo"}
T_STR_MARKER == <<123, 34, 115, 121, 115, 116, 101, 109, 34, 58, 34, 103, 101, 116, 95, 115, 121, 115, 105, 110, 102, 111, 34, 125>>
\* {"system":["get_sysinfo"]}
T_ARR_MARKER == <<123, 34, 115, 121, 115, 116, 101, 109, 34, 58, 91, 34, 103, 101, 116, 95, 115, 121, 115, 105, 110, 102, 111, 34, 93, 125>>
\* {"system":{}}
T_NO_INNER == <<123, 34, 115, 121, 115, 116, 101, 109, 34, 58, 123, 125, 125>>
\* {"system":null}
T_NULL_INNER == <<123, 34, 115, 121, 115, 116, 101, 109, 34, 58, 110, 117, 108, 108, 125>>
\* {"system":10}
T_NUM_INNER == <<123, 34, 115, 121, 115, 116, 101, 109, 34, 58, 49, 48, 125>>
\* {"A":{"get_sysinfo":null}}
T_OTHER_KEY == <<123, 34, 65, 34, 58, 123, 34, 103, 101, 116, 95, 115, 121, 115, 105, 110, 102, 111, 34, 58, 110, 117, 108, 108, 125, 125>>
\* {}
T_EMPTY == <<123, 125>>
\* ["system"]
T_ARRAY == <<91, 34, 115, 121, 115, 116, 101, 109, 34, 93>>
\* "system"
T_STRING == <<34, 115, 121, 115, 116, 101, 109, 34>>
\* null
T_NULL == <<110, 117, 108, 108>>
\* {"system":{"get_sysinfo"
T_TRUNCATED == <<123, 34, 115, 121, 115, 116, 101, 109, 34, 58, 123, 34, 103, 101, 116, 95, 115, 121, 115, 105, 110, 102, 111, 34>>
\* {"system":{"get_sysinfo":null}}}
T_TRAILING == <<123, 34, 115, 121, 115, 116, 101, 109, 34, 58, 123, 34, 103, 101, 116, 95, 115, 121, 115, 105, 110, 102, 111, 34, 58, 110, 117, 108, 108, 125, 125, 125>>
\* {"system":{"get_sysinfo":"é"}}
T_NON_ASCII == <<123, 34, 115, 121, 115, 116, 101, 109, 34, 58, 123, 34, 103, 101, 116, 95, 115, 121, 115, 105, 110, 102, 111, 34, 58, 34, 233, 34, 125, 125>>
SampleTexts == {T_QUERY, T_SYSINFO, T_SPACED, T_STR_MARKER, T_ARR_MARKER, T_NO_INNER, T_NULL_INNER, T_NUM_INNER, T_OTHER_KEY, T_EMPTY, T_ARRAY, T_STRING, T_NULL, T_TRUNCATED, T_TRAILING, T_NON_ASCII}

\* documents: [t |-> "obj", v |-> sequence of [k |-> key, v |-> document]],
\* [t |-> "arr", v |-> sequence of documents], [t |-> "str", v |-> code
\* points], [t |-> "num", v |-> sign and digits], [t |-> "bool"], [t |-> "null"]
JNull == [t |-> "null", v |-> <<>>]
JFail == [ok |-> FALSE, val |-> JNull, pos |-> 0]
JOk(val, pos) == [ok |-> TRUE, val |-> val, pos |-> pos]
WhiteSpace == {32, 9, 10, 13}
Digits == 48..57

RECURSIVE SkipWs(_, _)
SkipWs(s, i) == IF i <= Len(s) /\ s[i] \in WhiteSpace THEN SkipWs(s, i + 1) ELSE i

\* a string without escapes, s[i] being its opening quote
ParseString(s, i) ==
    LET closing == {j \in (i + 1)..Len(s) : s[j] = 34}
    IN IF closing = {} THEN JFail
       ELSE LET j == Min(closing)
            IN IF \E k \in (i + 1)..(j - 1) : s[k] < 32 \/ s[k] = 92
               THEN JFail
               ELSE JOk([t |-> "str", v |-> SubSeq(s, i + 1, j - 1)], j + 1)

ParseLiteral(s, i, word, val) ==
    IF i + Len(word) - 1 <= Len(s) /\ SubSeq(s, i, i + Len(word) - 1) = word
    THEN JOk(val, i + Len(word))
    ELSE JFail

\* an integer: an optional minus, then 0 or a digit sequence without a leading 0
ParseNumber(s, i) ==
    LET d == IF s[i] = 45 THEN i + 1 ELSE i
        stops == {j \in d..(Len(s) + 1) : j > Len(s) \/ s[j] \notin Digits}
        e == Min(stops)
    IN IF e = d \/ (s[d] = 48 /\ e > d + 1)
       THEN JFail
       ELSE JOk([t |-> "num", v |-> SubSeq(s, i, e - 1)], e)

RECURSIVE ParseValue(_, _), ParseMembers(_, _, _), ParseElements(_, _, _)
ParseValue(s, i0) ==
    LET i == SkipWs(s, i0)
    IN IF i > Len(s) THEN JFail
       ELSE CASE s[i] = 123 ->
                   LET j == SkipWs(s, i + 1)
                   IN IF j <= Len(s) /\ s[j] = 125
                      THEN JOk([t |-> "obj", v |-> <<>>], j + 1)
                      ELSE ParseMembers(s, j, <<>>)
              [] s[i] = 91 ->
                   LET j == SkipWs(s, i + 1)
                   IN IF j <= Len(s) /\ s[j] = 93
                      THEN JOk([t |-> "arr", v |-> <<>>], j + 1)
                      ELSE ParseElements(s, j, <<>>)
              [] s[i] = 34 -> ParseString(s, i)
              [] s[i] = 110 -> ParseLiteral(s, i, <<110, 117, 108, 108>>, JNull)
              [] s[i] = 116 -> ParseLiteral(s, i, <<116, 114, 117, 101>>, [t |-> "bool", v |-> <<1>>])
              [] s[i] = 102 -> ParseLiteral(s, i, <<102, 97, 108, 115, 101>>, [t |-> "bool", v |-> <<0>>])
              [] s[i] = 45 \/ s[i] \in Digits -> ParseNumber(s, i)
              [] OTHER -> JFail

\* "key": value pairs up to the closing brace, i being where a key must start
ParseMembers(s, i, acc) ==
    IF i > Len(s) \/ s[i] # 34 THEN JFail
    ELSE LET key == ParseString(s, i)
             c == SkipWs(s, key.pos)
         IN IF ~key.ok \/ c > Len(s) \/ s[c] # 58 THEN JFail
            ELSE LET val == ParseValue(s, c + 1)
                     n == SkipWs(s, val.pos)
                     all == Append(acc, [k |-> key.val.v, v |-> val.val])
                 IN IF ~val.ok \/ n > Len(s) THEN JFail
                    ELSE IF s[n] = 125 THEN JOk([t |-> "obj", v |-> all], n + 1)
                    ELSE IF s[n] = 44 THEN ParseMembers(s, SkipWs(s, n + 1), all)
                    ELSE JFail

ParseElements(s, i, acc) ==
    LET val == ParseValue(s, i)
        n == SkipWs(s, val.pos)
        all == Append(acc, val.val)
    IN IF ~val.ok \/ n > Len(s) THEN JFail
       ELSE IF s[n] = 93 THEN JOk([t |-> "arr", v |-> all], n + 1)
       ELSE IF s[n] = 44 THEN ParseElements(s, n + 1, all)
       ELSE JFail

\* json_loads: the document of a text, or the error of a text that is no
\* JSON value followed by nothing but white space
JsonLoads(text) ==
    LET r == ParseValue(text, 1)
    IN IF r.ok /\ SkipWs(text, r.pos) = Len(text) + 1 THEN r ELSE JFail

\* json_dumps(DISCOVERY_QUERY), lines 73-75 and 94
DiscoveryQueryText == T_QUERY

\* Python's `needle in x` for a str needle: a key of a dict, an element of a
\* list, a substring of a str, TypeError for anything else
PyIn(needle, x) ==
    CASE x.t = "obj" -> [ok |-> TRUE, val |-> \E i \in 1..Len(x.v) : x.v[i].k = needle]
      [] x.t = "arr" -> [ok |-> TRUE, val |-> \E i \in 1..Len(x.v) :
                                                  x.v[i].t = "str" /\ x.v[i].v = needle]
      [] x.t = "str" -> [ok |-> TRUE, val |-> \E k \in 0..(Len(x.v) - Len(needle)) :
                                                  SubSeq(x.v, k + 1, k + Len(needle)) = needle]
      [] OTHER -> [ok |-> FALSE, val |-> FALSE]

\* Python's x[key] for a str key: the value of a dict (of the last member
\* with that key), KeyError or TypeError otherwise
PyGetItem(x, key) ==
    IF x.t = "obj" /\ \E i \in 1..Len(x.v) : x.v[i].k = key
    THEN [ok |-> TRUE,
          val |-> x.v[CHOOSE i \in 1..Len(x.v) :
                          x.v[i].k = key /\ \A j \in (i + 1)..Len(x.v) : x.v[j].k # key].v]
    ELSE [ok |-> FALSE, val |-> JNull]

\* line 106: `except Exception` of try_get_discovery_info
DiscoveryCatchesValueError(e) == e \in {"UnicodeDecodeError", "JSONDecodeError"}
DiscoveryCatches(e) == TRUE

ReturnsNone(why) == [stage |-> "returned", kind |-> "None", why |-> why, doc |-> JNull]
ReturnsDoc(info) == [stage |-> "returned", kind |-> "doc", why |-> "marker", doc |-> info]
Raises(e) == [stage |-> "returned", kind |-> "raise", why |-> e, doc |-> JNull]
DiscoveryError(e) == IF DiscoveryCatches(e) THEN ReturnsNone(e) ELSE Raises(e)

\* try_get_discovery_info, lines 98-110
TryGetDiscoveryInfo(port, data) ==
    IF port # DEFAULT_PORT THEN ReturnsNone("port")
    ELSE LET text == Decrypt(data)
         IN IF ~text.ok THEN DiscoveryError("UnicodeDecodeError")
            ELSE LET info == JsonLoads(text.str)
                 IN IF ~info.ok THEN DiscoveryError("JSONDecodeError")
                    ELSE LET hasSystem == PyIn(SYSTEM, info.val)
                         IN IF ~hasSystem.ok THEN DiscoveryError("TypeError")
                            ELSE IF ~hasSystem.val THEN ReturnsNone("nomarker")
                            ELSE LET system == PyGetItem(info.val, SYSTEM)
                                 IN IF ~system.ok THEN DiscoveryError("TypeError")
                                    ELSE LET hasInfo == PyIn(GET_SYSINFO, system.val)
                                         IN IF ~hasInfo.ok THEN DiscoveryError("TypeError")
                                            ELSE IF hasInfo.val THEN ReturnsDoc(info.val)
                                            ELSE ReturnsNone("nomarker")

\* get_discovery_payload, lines 91-96
GetDiscoveryPayload == AfterPrefix(Encrypt(DiscoveryQueryText))

\* ------------------------------------------------ the base contract
\* the methods of TPLinkProtocol, in the order of the class body
BaseMethods ==
    <<"get_discovery_targets", "get_discovery_payload", "try_get_discovery_info",
      "try_query_discovery_info", "query", "close">>
\* the method TPLinkAuthProtocol adds to the ones it inherits
AuthMethods == Append(BaseMethods, "parse_unauthenticated_info")

RaisesSmartDeviceException(msg) ==
    [stage |-> "returned", kind |-> "raise", why |-> "SmartDeviceException", msg |-> msg]

\* TPLinkProtocol, lines 39-64: what a call of method m does
TPLinkProtocolCloseReturns(m) ==
    IF m = "close"
    THEN [stage |-> "returned", kind |-> "None", why |-> "none", msg |-> "none"]
    ELSE RaisesSmartDeviceException(m)
TPLinkProtocolMethod(m) ==
    CASE m = "get_discovery_targets" -> RaisesSmartDeviceException("get_discovery_targets")
      [] m = "get_discovery_payload" -> RaisesSmartDeviceException("get_discovery_payload")
      [] m = "try_get_discovery_info" -> RaisesSmartDeviceException("try_get_discovery_info")
      [] m = "try_query_discovery_info" -> RaisesSmartDeviceException("try_query_discovery_info")
      [] m = "query" -> RaisesSmartDeviceException("query")
      [] m = "close" -> RaisesSmartDeviceException("close")

\* TPLinkAuthProtocol (auth.py): parse_unauthenticated_info, lines 43-45, and
\* the methods inherited from TPLinkProtocol
TPLinkAuthProtocolMethod(m) ==
    IF m = "parse_unauthenticated_info"
    THEN RaisesSmartDeviceException("parse_unauthenticated_info")
    ELSE TPLinkProtocolMethod(m)

\* ----------------------------------- the pure functions, applied to inputs
\* cin is the argument of the function under check, cout what the functions
\* applied so far have returned
Ports == {DEFAULT_PORT - 1, DEFAULT_PORT, DEFAULT_PORT + 1}
Datagrams ==
    {XorPayload(Utf8Encode(x)) : x \in SampleTexts}
        \cup SeqsUpTo(ByteSample, MaxGarbage)
        \cup {XorPayload(b) : b \in SeqsUpTo(ByteSample, MaxGarbage)}
CodecInputs ==
    {[kind |-> "bytes", port |-> None, val |-> b] : b \in SeqsUpTo(ByteSample, MaxLen)}
        \cup {[kind |-> "str", port |-> None, val |-> x] : x \in SeqsUpTo(CodePointSample, MaxLen)}
        \cup {[kind |-> "datagram", port |-> p, val |-> d] : p \in Ports, d \in Datagrams}
        \cup {[kind |-> "TPLinkProtocol", port |-> None, val |-> <<i>>] : i \in 1..Len(BaseMethods)}
        \cup {[kind |-> "TPLinkAuthProtocol", port |-> None, val |-> <<i>>] : i \in 1..Len(AuthMethods)}

InitCodec ==
    /\ InitInstance(0, 0)
    /\ cin \in CodecInputs
    /\ cout = NoOutput

XorEncode ==
    /\ cin.kind = "bytes" /\ cout.stage = "none"
    /\ cout' = [stage |-> "xored", cipher |-> XorPayload(cin.val)]
    /\ UNCHANGED <<instVars, heapVars, taskVars, histVars, cin, finVars>>

XorDecode ==
    /\ cin.kind = "bytes" /\ cout.stage = "xored"
    /\ cout' = [stage |-> "unxored", cipher |-> cout.cipher,
                plain |-> XorEncryptedPayload(cout.cipher)]
    /\ UNCHANGED <<instVars, heapVars, taskVars, histVars, cin, finVars>>

EncryptCall ==
    /\ cin.kind = "str" /\ cout.stage = "none"
    /\ cout' = [stage |-> "encrypted", frame |-> Encrypt(cin.val)]
    /\ UNCHANGED <<instVars, heapVars, taskVars, histVars, cin, finVars>>

DecryptCall ==
    /\ cin.kind = "str" /\ cout.stage = "encrypted"
    /\ cout' = [stage |-> "decrypted", frame |-> cout.frame,
                text |-> Decrypt(AfterPrefix(cout.frame))]
    /\ UNCHANGED <<instVars, heapVars, taskVars, histVars, cin, finVars>>

TryGetDiscoveryInfoCall ==
    /\ cin.kind = "datagram" /\ cout.stage = "none"
    /\ cout' = TryGetDiscoveryInfo(cin.port, cin.val)
    /\ UNCHANGED <<instVars, heapVars, taskVars, histVars, cin, finVars>>

\* a method of the base class is called, cin.val holding its place in the class
TPLinkProtocolCall ==
    /\ cin.kind = "TPLinkProtocol" /\ cout.stage = "none"
    /\ cout' = TPLinkProtocolMethod(BaseMethods[cin.val[1]])
    /\ UNCHANGED <<instVars, heapVars, taskVars, histVars, cin, finVars>>

TPLinkAuthProtocolCall ==
    /\ cin.kind = "TPLinkAuthProtocol" /\ cout.stage = "none"
    /\ cout' = TPLinkAuthProtocolMethod(AuthMethods[cin.val[1]])
    /\ UNCHANGED <<instVars, heapVars, taskVars, histVars, cin, finVars>>

NextCodec ==
    \/ XorEncode
    \/ XorDecode
    \/ EncryptCall
    \/ DecryptCall
    \/ TryGetDiscoveryInfoCall
    \/ TPLinkProtocolCall
    \/ TPLinkAuthProtocolCall

SpecCodec == InitCodec /\ [][NextCodec]_vars

\* ------------------------------------------------------------- claims
\* a dial failure the code must not retry: ConnectionRefusedError, or an
\* OSError with errno EHOSTDOWN, EHOSTUNREACH or ECONNREFUSED
NoRetryExc(e) ==
    e.type = "ConnectionRefusedError"
        \/ (e.type = "OSError" /\ e.errno \in {"EHOSTDOWN", "EHOSTUNREACH", "ECONNREFUSED"})
QueryEnded(t) == pc[t] \in {"done", "raised"}

\* C1: a query with retry_count >= 0 whose dials all succeeded and that
\* raised has made exactly retry_count + 1 execute attempts and raised the
\* "Unable to query" SmartDeviceException; no running query has made more
\* than retry_count + 1 execute attempts; after the raise the call makes no
\* further dial or execute attempt.
C1_RetryBudget ==
    /\ [](\A t \in Tasks :
            /\ (pc[t] = "raised" /\ rc[t] >= 0 /\ dialFails[t] = 0) =>
                  /\ execs[t] = rc[t] + 1
                  /\ outcome[t].kind = "SmartDeviceException"
                  /\ outcome[t].msg = "query"
            /\ (pc[t] \in InSection /\ rc[t] >= 0) => execs[t] <= rc[t] + 1)
    /\ [][\A t \in Tasks :
            (pc[t] = "raised" /\ callsLeft' = callsLeft) =>
                (pc'[t] = "raised" /\ execs'[t] = execs[t] /\ dials'[t] = dials[t])]_vars

\* C1 witness: the default retry_count 3, four dials that succeeded, four
\* executes that each failed with an injected transient error, then the raise
C1_Witness ==
    \E t \in Tasks :
        /\ pc[t] = "raised" /\ rc[t] = DEFAULT_RETRY_COUNT
        /\ dialFails[t] = 0 /\ dials[t] = 4 /\ execs[t] = 4
        /\ faultsLeft = SeqMaxFaults - 4
        /\ outcome[t].msg = "query" /\ outcome[t].cause \in ExecErrors

\* C2: once a dial of a query has failed with a non-retryable error, that
\* query makes no further dial attempt and ends raising the "Unable to
\* connect" SmartDeviceException; if that was its first attempt, exactly one
\* dial attempt was made.
C2_NoRetryOnRefused ==
    /\ [](\A t \in Tasks : refused[t] =>
            /\ pc[t] \in {"closing_q", "raised"}
            /\ pc[t] = "raised" =>
                  /\ outcome[t].kind = "SmartDeviceException"
                  /\ outcome[t].msg = "connect"
                  /\ NoRetryExc(outcome[t].cause)
            /\ (dialFails[t] = 1 /\ execs[t] = 0) => dials[t] = 1)
    /\ [][\A t \in Tasks : (refused[t] /\ refused'[t]) => dials'[t] = dials[t]]_vars

\* C2 witness: retry_count 3 with the whole budget left, the first dial fails
\* with an OSError of a no-retry errno, one dial attempt, raised
C2_Witness ==
    \E t \in Tasks :
        /\ pc[t] = "raised" /\ refused[t] /\ rc[t] = DEFAULT_RETRY_COUNT
        /\ dials[t] = 1 /\ execs[t] = 0
        /\ outcome[t].cause.type = "OSError"
        /\ outcome[t].cause.errno \in NO_RETRY_ERRORS

\* in flight: after the start of the first dial or write of the query and
\* before the end of its last read
InFlight(t) ==
    pc[t] \in {"dial", "read"} \/ (pc[t] = "exec" /\ dials[t] + execs[t] > 0)

\* C3: at most one query of the instance is in flight.
C3_SingleFlight == Cardinality({t \in Tasks : InFlight(t)}) <= 1

\* C4: in a sequence of queries made by one caller (no other caller has made
\* a call), a query never has its request on a stream that was opened in
\* another event loop than the one the query runs in.
C4_NoCrossContextSend ==
    \A t \in Tasks :
        (pc[t] = "read" /\ \A u \in Tasks \ {t} : pc[u] = "idle") =>
            streams[rs[t]].loop = ctx[t]

\* the two outcomes of query: the decoded document, or one
\* SmartDeviceException that names host:port and the underlying cause
TwoOutcomes(t) ==
    \/ /\ pc[t] = "done"
       /\ outcome[t].kind = "document"
       /\ outcome[t].resp \in Tasks
    \/ /\ pc[t] = "raised"
       /\ outcome[t].kind = "SmartDeviceException"
       /\ outcome[t].msg \in {"connect", "query"}
       /\ IsException(outcome[t].cause)

C7_CloseIdempotent ==
    /\ [](cseq >= 1 => (writer = None /\ reader = None))
    /\ [][(cseq = 1 /\ cseq' = 2) =>
            /\ instVars' = instVars
            /\ streams' = streams
            /\ \A t \in Tasks : pc'[t] = "closing_u" => pc[t] = "closing_u"
            /\ \E t \in Tasks : pc'[t] = "closed" /\ outcome'[t].kind = "returned"]_vars

\* C7 witness: the second close() has returned while the first one still
\* waits for the shutdown of the stream it took
C7_Witness ==
    /\ cseq = 2
    /\ \E t, u \in Tasks :
          /\ pc[t] = "closing_u" /\ streams[rs[t]].closed
          /\ pc[u] = "closed"

\* the discovery marker: a mapping with key "system" whose value is a
\* mapping that has key "get_sysinfo"
HasMarker(doc) ==
    /\ doc.t = "obj"
    /\ \E i \in 1..Len(doc.v) :
          /\ doc.v[i].k = SYSTEM
          /\ \A j \in (i + 1)..Len(doc.v) : doc.v[j].k # SYSTEM
          /\ doc.v[i].v.t = "obj"
          /\ \E m \in 1..Len(doc.v[i].v.v) : doc.v[i].v.v[m].k = GET_SYSINFO
\* the datagram cipher-decodes and parses to a document with the marker
Marked(data) ==
    /\ Decrypt(data).ok
    /\ JsonLoads(Decrypt(data).str).ok
    /\ HasMarker(JsonLoads(Decrypt(data).str).val)

\* C8: try_get_discovery_info returns a document only for port 9999 and a
\* datagram that decodes and parses to a document with the discovery
\* marker, and returns null for every other port and datagram.
C8_DiscoveryOnlyMarked ==
    (cin.kind = "datagram" /\ cout.stage = "returned") =>
        /\ cout.kind = "doc" => (cin.port = DEFAULT_PORT /\ Marked(cin.val))
        /\ (cin.port # DEFAULT_PORT \/ ~Marked(cin.val)) => cout.kind = "None"

\* C9: try_get_discovery_info never raises: a failure of the decoding, of the
\* parsing or of the marker check gives null; the call leaves every protocol
\* instance, stream, lock and caller as it is.
C9_DiscoveryNeverRaises ==
    /\ []((cin.kind = "datagram" /\ cout.stage = "returned") =>
            /\ cout.kind \in {"None", "doc"}
            /\ cout.why \in {"UnicodeDecodeError", "JSONDecodeError", "TypeError"}
                  => cout.kind = "None")
    /\ [][(cin.kind = "datagram" /\ cout.stage = "none" /\ cout'.stage = "returned") =>
            (instVars' = instVars /\ heapVars' = heapVars /\ taskVars' = taskVars)]_vars

\* C9 witness: on the right port, a datagram that parses to a document on
\* which the marker check raises TypeError has given null
C9_Witness ==
    /\ cin.kind = "datagram" /\ cin.port = DEFAULT_PORT
    /\ cout.stage = "returned" /\ cout.kind = "None" /\ cout.why = "TypeError"

\* C10: decoding the encoding of a byte sequence gives the byte sequence,
\* and decrypt of encrypt(s) without its length prefix gives the text s.
C10_CipherRoundTrip ==
    /\ (cin.kind = "bytes" /\ cout.stage = "unxored") => cout.plain = cin.val
    /\ (cin.kind = "str" /\ cout.stage = "decrypted") =>
          (cout.text.ok /\ cout.text.str = cin.val)

\* C10 witness: a byte sequence of the greatest length that is no UTF-8 text
\* has been encoded to other bytes and decoded
C10_Witness ==
    /\ cin.kind = "bytes" /\ cout.stage = "unxored"
    /\ Len(cin.val) = MaxLen /\ ~Utf8Decode(cin.val).ok
    /\ cout.cipher # cin.val

\* the frame of the text {} : 00 00 00 02 D0 AD
BracesFrame == <<0, 0, 0, 2, 208, 173>>

\* C11: the encoding of a byte sequence p has the length of p, and with
\* key_0 = 171 its byte i is key_(i-1) XOR p_i, which is key_i; the text {}
\* is encrypted to the frame 00 00 00 02 D0 AD.
C11_KeySchedule ==
    /\ (cin.kind = "bytes" /\ cout.stage \in {"xored", "unxored"}) =>
          /\ Len(cout.cipher) = Len(cin.val)
          /\ \A i \in 1..Len(cin.val) :
                cout.cipher[i] =
                    BitXor(IF i = 1 THEN 171 ELSE cout.cipher[i - 1], cin.val[i])
    /\ (cin.kind = "str" /\ cin.val = <<123, 125>> /\ cout.stage \in {"encrypted", "decrypted"}) =>
          cout.frame = BracesFrame

\* C11 witness: the text {} has been encrypted to a frame that ends in D0 AD
C11_Witness ==
    /\ cin.kind = "str" /\ cin.val = <<123, 125>>
    /\ cout.stage = "encrypted"
    /\ SubSeq(cout.frame, 5, 6) = <<208, 173>>

\* the number of bytes of the UTF-8 form of a code point below 0x10000
ByteLen(c) == IF c < 128 THEN 1 ELSE IF c < 2048 THEN 2 ELSE 3
RECURSIVE TextByteLen(_)
TextByteLen(str) == IF str = <<>> THEN 0 ELSE ByteLen(Head(str)) + TextByteLen(Tail(str))

\* C12: the frame encrypt returns for a text starts with four bytes that
\* are the big-endian byte length of the text, and that many ciphertext
\* bytes follow: the frame is 4 + length bytes long.
C12_FrameLength ==
    (cin.kind = "str" /\ cout.stage \in {"encrypted", "decrypted"}) =>
        /\ Len(cout.frame) = 4 + TextByteLen(cin.val)
        /\ (cout.frame[1] * 16777216) + (cout.frame[2] * 65536)
              + (cout.frame[3] * 256) + cout.frame[4] = TextByteLen(cin.val)

\* C12 witness: a text of MaxLen code points whose byte length is greater
\* than its number of code points has been encrypted
C12_Witness ==
    /\ cin.kind = "str" /\ cout.stage = "encrypted"
    /\ Len(cin.val) = MaxLen
    /\ Len(cout.frame) > 4 + MaxLen

\* C13: a call of try_query_discovery_info queries with the default
\* retry_count and never ends by raising; it returns the response document
\* of its query, or null when the query raised its SmartDeviceException
\* (refused dial, non-retryable OS error, or budget used up); it returns no
\* document after a non-retryable dial failure or a fourth failed attempt.
C13_DiscoveryQueryNull ==
    \A t \in Tasks : disc[t] =>
        /\ rc[t] = 3
        /\ pc[t] # "raised"
        /\ pc[t] = "done" =>
              \/ outcome[t].kind = "document" /\ outcome[t].resp \in Tasks
              \/ /\ outcome[t].kind = "None"
                 /\ outcome[t].msg \in {"connect", "query"}
                 /\ outcome[t].cause.type # "none"
        /\ (pc[t] = "done" /\ outcome[t].kind = "document") =>
              (~refused[t] /\ dialFails[t] + execs[t] <= 4)

\* C13 witness: try_query_discovery_info has returned null after four
\* executes that failed
C13_Witness ==
    \E t \in Tasks :
        /\ disc[t] /\ pc[t] = "done" /\ outcome[t].kind = "None"
        /\ outcome[t].msg = "query" /\ execs[t] = 4 /\ dialFails[t] = 0

\* a call of a method of one of the two base classes
BaseClasses == {"TPLinkProtocol", "TPLinkAuthProtocol"}

\* C14: every method of the base contract, and parse_unauthenticated_info
\* of the authenticating base, ends by raising a SmartDeviceException that
\* names the method, returns no value and leaves every instance, stream, lock
\* and caller as it is.
C14_BaseContractRaises ==
    /\ []((cin.kind \in BaseClasses /\ cout.stage = "returned") =>
            /\ cout.kind = "raise"
            /\ cout.why = "SmartDeviceException"
            /\ cout.msg = AuthMethods[cin.val[1]])
    /\ [][(cin.kind \in BaseClasses /\ cout.stage = "none" /\ cout' # cout) =>
            /\ cout'.stage = "returned"
            /\ instVars' = instVars /\ heapVars' = heapVars /\ taskVars' = taskVars]_vars

\* C14 witness: close of the base class and parse_unauthenticated_info of the
\* authenticating base have been called and have raised
C14_Witness ==
    /\ cout.stage = "returned" /\ cout.kind = "raise"
    /\ \/ cin.kind = "TPLinkProtocol" /\ BaseMethods[cin.val[1]] = "close"
       \/ cin.kind = "TPLinkAuthProtocol" /\ AuthMethods[cin.val[1]] = "parse_unauthenticated_info"

\* C15: whenever the instance holds a stream, it is bound to an event loop
\* and that loop is the one the stream was opened in.
C15_StreamOwnedByLoop ==
    writer # None => (loop # None /\ streams[writer].loop = loop)

\* the step in which caller t's query handles the failure of a dial or of an
\* execute
FailureStep(t) ==
    \/ dialFails'[t] = dialFails[t] + 1
    \/ pc[t] \in {"exec", "read"} /\ pc'[t] \notin {pc[t], "read", "done"}

\* C16 as stated: when a query has raised after a dial or execute failure
\* and no other caller has made a call, the stream, the bound event loop and
\* the lock of the instance are all null.
C16_AllTornDownOnFailure ==
    \A t \in Tasks :
        (pc[t] = "raised" /\ rc[t] >= 0 /\ \A u \in Tasks \ {t} : pc[u] = "idle") =>
            (writer = None /\ reader = None /\ loop = None /\ query_lock = None)

\* C16 amended: the step that handles a dial or execute failure of a query
\* leaves the instance without stream (reader and writer null) and leaves
\* its bound event loop and its lock as they are; the lock the query holds
\* stays locked until the query ends.
C16_StreamTornDownOnFailure ==
    [][\A t \in Tasks : FailureStep(t) =>
          /\ writer' = None /\ reader' = None
          /\ loop' = loop /\ query_lock' = query_lock
          /\ pc'[t] \in InSection => (lk'[t] = lk[t] /\ locks'[lk[t]].locked)]_vars

\* C16 witness: after a failed execute the query waits in close() for the
\* shutdown of the stream it took from the instance, which keeps its event
\* loop and its lock
C16_Witness ==
    \E t \in Tasks :
        /\ pc[t] = "closing_q" /\ hnd[t] = "exec" /\ err[t] \in ExecErrors
        /\ writer = None /\ reader = None
        /\ loop # None /\ query_lock # None /\ locks[query_lock].locked

\* C17: in a query with retry_count n >= 0 the failed dials and the executes
\* together never number more than n + 1, nor do the dial attempts or the
\* execute attempts; a query that raised without a non-retryable dial failure
\* has had exactly n + 1 failed attempts, dials and executes together, and
\* raised the wrapped error of the last one.
C17_SharedBudget ==
    \A t \in Tasks : rc[t] >= 0 =>
        /\ dials[t] <= rc[t] + 1
        /\ execs[t] <= rc[t] + 1
        /\ dialFails[t] + execs[t] <= rc[t] + 1
        /\ (pc[t] = "raised" /\ ~refused[t]) =>
              /\ dialFails[t] + execs[t] = rc[t] + 1
              /\ outcome[t].kind = "SmartDeviceException"
              /\ outcome[t].msg \in {"connect", "query"}
              /\ outcome[t].cause.type # "none"

\* C17 witness: with retry_count 3, two retryable dial failures and two
\* execute failures, the query has raised on its fourth attempt, a failed dial
C17_Witness ==
    \E t \in Tasks :
        /\ pc[t] = "raised" /\ rc[t] = 3 /\ ~refused[t]
        /\ dialFails[t] = 2 /\ execs[t] = 2
        /\ outcome[t].msg = "connect"

\* caller t is the only one that has made a call
OnlyCaller(t) == \A u \in Tasks \ {t} : pc[u] = "idle"

\* C18: for a caller that is the only one to use the instance: the step that
\* ends a query with its response leaves the stream of that query, open, in
\* the instance; a query with retry_count >= 0 that follows a successful
\* query in the same event loop starts on that stream without dialing; no
\* step that writes a request or reads a response dials; and a query whose
\* first execute succeeded has dialed at most once.
C18_StreamReuse ==
    /\ [][\A t \in Tasks : OnlyCaller(t) =>
            /\ (pc[t] = "read" /\ pc'[t] = "done") =>
                  /\ writer' = rs[t] /\ reader' = rs[t]
                  /\ ~streams'[rs[t]].closed
            /\ (pc[t] = "done" /\ outcome[t].kind = "document"
                    /\ pc'[t] # "done" /\ ctx'[t] = ctx[t] /\ rc'[t] >= 0) =>
                  /\ writer # None /\ writer' = writer /\ reader' = reader
                  /\ pc'[t] = "exec" /\ dials'[t] = 0
            /\ (pc[t] \in {"exec", "read"} /\ pc'[t] \in {"read", "done"}) =>
                  dials'[t] = dials[t]]_vars
    /\ [](\A t \in Tasks :
            (pc[t] = "done" /\ outcome[t].kind = "document" /\ execs[t] = 1 /\ dialFails[t] = 0)
                => dials[t] <= 1)

\* C18 witness: the third of three queries of one caller has returned its
\* response without any dial, on the stream the instance still holds
C18_Witness ==
    \E t \in Tasks :
        /\ OnlyCaller(t) /\ callsLeft = MaxCalls - 3
        /\ pc[t] = "done" /\ outcome[t].kind = "document"
        /\ dials[t] = 0 /\ execs[t] = 1
        /\ writer # None /\ ~streams[writer].closed /\ streams[writer].loop = ctx[t]
        /\ faultsLeft = MaxFaults

\* the stream caller t's execute works on: the one of the instance before
\* the write, the one its frame holds during the read
ExecStream(t) == IF pc[t] = "exec" THEN writer ELSE rs[t]

\* C19: the instance never holds a closed stream; the step that handles a
\* failed execute leaves the stream the execute worked on closed and the
\* instance without stream; and the step that takes a query to its next
\* attempt starts a dial on an instance without stream.
C19_FreshDialAfterFailure ==
    /\ [](writer # None => ~streams[writer].closed)
    /\ [][\A t \in Tasks :
            /\ (pc[t] \in {"exec", "read"} /\ pc'[t] \notin {pc[t], "read", "done"}) =>
                  /\ writer' = None /\ reader' = None
                  /\ ExecStream(t) # None =>
                        (streams'[ExecStream(t)].closed \/ streams'[ExecStream(t)] = FreeStream)
            /\ retry'[t] = retry[t] + 1 => (pc'[t] = "dial" /\ dials'[t] = dials[t] + 1)]_vars

\* C20: the step in which a query raises leaves the instance without stream
\* and the lock the query held released; and a caller whose query raised
\* and who queries again with retry_count >= 0, on the instance still without
\* stream, starts with a dial.
C20_FailureNotFatal ==
    [][\A t \in Tasks :
          /\ (pc[t] \in InSection /\ pc'[t] = "raised") =>
                /\ writer' = None /\ reader' = None
                /\ ~locks'[lk[t]].locked
          /\ (pc[t] = "raised" /\ writer = None /\ pc'[t] \in InSection /\ rc'[t] >= 0) =>
                (pc'[t] = "dial" /\ dials'[t] = 1)]_vars

\* C21: after the finalization of the instance its stream, event loop and
\* lock are null; if the instance held a stream when it was discarded and
\* the event loop that stream was opened in was running, the close of the
\* stream has been scheduled on that event loop; and the stream is closed by
\* the scheduled call, not by the finalization itself.
C21_FinalizeSchedulesClose ==
    fin.done =>
        /\ reader = None /\ writer = None /\ loop = None /\ query_lock = None
        /\ (fin.stream # None /\ streams[fin.stream].loop \in fin.running) =>
              fin.on = streams[fin.stream].loop
        /\ fin.stream # None => (streams[fin.stream].closed <=> fin.ran)

\* C22: every query terminates: a query inside an attempt is in one of the
\* retry_count + 1 iterations of its loop, a query that has entered the
\* dial/execute section eventually returns or raises, and a caller queued on
\* the lock is eventually admitted.
C22_QueryTerminates ==
    /\ [](\A t \in Tasks : pc[t] \in {"dial", "exec", "read"} => retry[t] + 1 <= rc[t] + 1)
    /\ \A t \in Tasks : (pc[t] \in InSection) ~> QueryEnded(t)
    /\ \A t \in Tasks : (pc[t] = "wait") ~> (pc[t] # "wait")
C22_Witness ==
    \E t \in Tasks, u \in Tasks :
        /\ pc[t] = "raised" /\ rc[t] = MaxRetry /\ dialFails[t] + execs[t] = rc[t] + 1
        /\ pc[u] = "wait" /\ ~locks[lk[u]].locked /\ Head(locks[lk[u]].waiters) = u

\* C23: a query that begins to write finds no request outstanding on the
\* stream it writes on, and a query that returns a document has read the
\* response to its own request: the only request outstanding on its stream
\* is the one it wrote. Queries may end by return, raise or cancellation.
C23_RequestResponse ==
    [][\A t \in Tasks :
          /\ (pc[t] = "exec" /\ pc'[t] = "read") => streams[writer].pending = <<>>
          /\ (pc[t] = "read" /\ pc'[t] = "done") => streams[rs[t]].pending = <<t>>]_vars

\* C24: no assertion on reader and writer fails: no call handles or has
\* raised from an AssertionError; and reader and writer are both null or
\* both non-null.
C24_AssertionsHold ==
    /\ (reader = None) <=> (writer = None)
    /\ \A t \in Tasks : err[t] # AssertionError /\ outcome[t].cause # AssertionError

\* C25: no step replaces or nulls the lock of the instance while a query
\* holds it, and at most one caller is inside the dial/execute section
\* (`async with self.query_lock`).
C25_ResetKeepsHeldLock ==
    /\ [][(query_lock # None /\ locks[query_lock].locked) => query_lock' = query_lock]_vars
    /\ [](Cardinality({t \in Tasks : pc[t] \in InSection}) <= 1)

====
